---- MODULE Spec2Model ----
(***************************************************************************)
(* Model of pymunin/plugins/mysqlstats.py: the MuninMySQLplugin class.     *)
(*                                                                         *)
(* One plugin run is: construction (__init__), then calls of retrieveVals, *)
(* engineIncluded and autoconf on the instance.  The MuninPlugin base      *)
(* class (graphEnabled, envCheckFilter, hasGraph, appendGraph,             *)
(* setGraphVal) and the MySQLinfo connection class are not part of the     *)
(* plugin file; they are modelled from the specification's sections 4.1,   *)
(* 4.2 and 6.  An exception that leaves a method of the plugin ends the    *)
(* run (pc = "dead"): no method of the plugin handles one, and main()      *)
(* hands the class to muninMain and exits with its result.                 *)
(***************************************************************************)
EXTENDS Integers, Sequences, FiniteSets, TLC

(***************************************************************************)
(* Bounds of the model.                                                    *)
(***************************************************************************)
\* raw counters of the generated snapshots take their values in 0..MaxVal
MaxVal == 1
\* at most MaxMissing of the MissableKeys are absent from a snapshot
MaxMissing == 1

(***************************************************************************)
(* Python values.  None / a stored object: the empty / one-element tuple.  *)
(* A field value or the result of dict.get: a number or None (unknown).    *)
(***************************************************************************)
None == <<>>
Some(x) == <<x>>

Known(n) == [known |-> TRUE, num |-> n]
Unknown == [known |-> FALSE, num |-> 0]

\* the result of evaluating an argument expression: a value, or TypeError
Ok(v) == [raises |-> FALSE, val |-> v]
TypeError == [raises |-> TRUE, val |-> Unknown]

(***************************************************************************)
(* Graph and field declarations of __init__.                               *)
(***************************************************************************)
\* lines 97-216: the graphs registered under graphEnabled alone, in order
NonEngineGraphs ==
    << "mysql_connections", "mysql_traffic", "mysql_slowqueries",
       "mysql_rowmodifications", "mysql_rowreads", "mysql_tablelocks",
       "mysql_threads", "mysql_commits_rollbacks" >>

\* lines 218-281: the graphs registered inside `if self.engineIncluded('innodb')`
InnodbGraphs ==
    << "mysql_innodb_buffer_pool_util", "mysql_innodb_buffer_pool_activity",
       "mysql_innodb_buffer_pool_read_reqs", "mysql_innodb_row_ops" >>

Range(s) == {s[i] : i \in 1..Len(s)}

GraphIds == Range(NonEngineGraphs) \cup Range(InnodbGraphs)

EngineNames == {"innodb", "myisam"}

\* the addField calls of __init__, per graph, in order
GraphFields(g) ==
    CASE g = "mysql_connections" -> <<"conn", "abort_conn", "abort_client">>
      [] g = "mysql_traffic" -> <<"rx", "tx">>
      [] g = "mysql_slowqueries" -> <<"queries">>
      [] g = "mysql_rowmodifications" -> <<"insert", "update", "delete">>
      [] g = "mysql_rowreads" -> <<"first", "key", "next", "prev", "rnd", "rnd_next">>
      [] g = "mysql_tablelocks" -> <<"waited", "immediate">>
      [] g = "mysql_threads" -> <<"running", "idle", "cached", "total">>
      [] g = "mysql_commits_rollbacks" -> <<"commit", "rollback">>
      [] g = "mysql_innodb_buffer_pool_util" -> <<"dirty", "clean", "misc", "free", "total">>
      [] g = "mysql_innodb_buffer_pool_activity" -> <<"created", "read", "written">>
      [] g = "mysql_innodb_buffer_pool_read_reqs" -> <<"disk", "buffer">>
      [] g = "mysql_innodb_row_ops" -> <<"inserted", "updated", "deleted", "read">>

FieldIds == UNION {{<<g, f>> : f \in Range(GraphFields(g))} : g \in GraphIds}

(***************************************************************************)
(* The stats source (MySQLinfo).  getStats returns a mapping from counter  *)
(* name to number, or fails; a counter may be absent from the mapping.     *)
(***************************************************************************)
\* the raw counters retrieveVals reads, in the order it reads them
KeySeq ==
    << "Connections", "Aborted_connects", "Aborted_clients",
       "Bytes_received", "Bytes_sent", "Slow_queries",
       "Handler_write", "Handler_update", "Handler_delete",
       "Handler_read_first", "Handler_read_key", "Handler_read_next",
       "Handler_read_prev", "Handler_read_rnd", "Handler_read_rnd_next",
       "Table_locks_waited", "Table_locks_immediate",
       "Threads_running", "Threads_connected", "Threads_cached",
       "Handler_commit", "Handler_rollback",
       "Innodb_buffer_pool_pages_data", "Innodb_buffer_pool_pages_dirty",
       "Innodb_page_size", "Innodb_buffer_pool_pages_misc",
       "Innodb_buffer_pool_pages_free", "Innodb_buffer_pool_pages_total",
       "Innodb_pages_created", "Innodb_pages_read", "Innodb_pages_written",
       "Innodb_buffer_pool_reads", "Innodb_buffer_pool_read_requests",
       "Innodb_rows_inserted", "Innodb_rows_updated", "Innodb_rows_deleted",
       "Innodb_rows_read" >>

Keys == Range(KeySeq)

\* a snapshot with every counter present, each with a value of its own
BaseSnapshot == [k \in Keys |-> 2 + (CHOOSE i \in 1..Len(KeySeq) : KeySeq[i] = k)]

\* the counters whose absence the model explores: the operands of the
\* derivations and one pass-through counter
MissableKeys ==
    { "Connections", "Threads_running", "Threads_connected", "Threads_cached",
      "Innodb_buffer_pool_pages_data", "Innodb_buffer_pool_pages_dirty",
      "Innodb_buffer_pool_pages_misc", "Innodb_page_size",
      "Innodb_buffer_pool_reads", "Innodb_buffer_pool_read_requests" }

Vals == 0..MaxVal

With3(st, k1, v1, k2, v2, k3, v3) ==
    [k \in DOMAIN st |-> IF k = k1 THEN v1 ELSE IF k = k2 THEN v2
                          ELSE IF k = k3 THEN v3 ELSE st[k]]

\* snapshots that vary the three thread counters
ThreadSnapshots ==
    { With3(BaseSnapshot, "Threads_connected", c, "Threads_running", r,
            "Threads_cached", k) : c \in Vals, r \in Vals, k \in Vals }

\* the snapshot {connected: 10, running: 3, cached: 2}
ScenarioA ==
    With3(BaseSnapshot, "Threads_connected", 10, "Threads_running", 3,
          "Threads_cached", 2)

\* snapshots that vary the two buffer-pool read counters
ReadSnapshots ==
    { With3(BaseSnapshot, "Innodb_buffer_pool_read_requests", q,
            "Innodb_buffer_pool_reads", p, "Innodb_buffer_pool_reads", p) :
        q \in Vals, p \in Vals }

\* snapshots with up to MaxMissing of the MissableKeys absent
MissingSnapshots ==
    { [k \in Keys \ m |-> BaseSnapshot[k]] :
        m \in {x \in SUBSET MissableKeys : Cardinality(x) <= MaxMissing} }

Snapshots ==
    ThreadSnapshots \cup {ScenarioA} \cup ReadSnapshots \cup MissingSnapshots

\* dict.get(key): the value, or None when the key is absent
Get(st, k) == IF k \in DOMAIN st THEN Known(st[k]) ELSE Unknown

\* the assignment building a new mapping that holds the one key only
PutAlone(st, k, v) == [x \in {k} |-> v]

\* dict[key] = value
Put(st, k, v) == [x \in (DOMAIN st) \cup {k} |-> IF x = k THEN v ELSE st[x]]

(***************************************************************************)
(* The filters of the MuninPlugin base class (specification 4.1).          *)
(***************************************************************************)
\* decide(name, includeSet, excludeSet): exclude wins; a non-empty include
\* set admits only its members; otherwise enabled
decide(name, includeSet, excludeSet) ==
    IF name \in excludeSet THEN FALSE
    ELSE IF includeSet # {} THEN name \in includeSet
    ELSE TRUE

\* graphEnabled(name): the filter over include_graphs / exclude_graphs
graphEnabled(e, name) == decide(name, e.include_graphs, e.exclude_graphs)

\* envCheckFilter('engine', name): the filter registered at line 84
envCheckFilterEngine(e, name) == decide(name, e.include_engine, e.exclude_engine)

\* hasGraph(name) over the registry, a sequence in registration order
hasGraph(reg, name) == \E i \in 1..Len(reg) : reg[i] = name

(***************************************************************************)
(* The environments explored.  Each include and exclude list is empty or   *)
(* names one graph (one engine); the graph lists are varied with the       *)
(* engine lists empty, and the engine lists with the graph lists naming    *)
(* at most one innodb graph to include.                                    *)
(***************************************************************************)
GraphFilterSets == {{}} \cup {{g} : g \in GraphIds}

EngineFilterSets == {{}} \cup {{n} : n \in EngineNames}

GraphEnvs ==
    [include_graphs : GraphFilterSets, exclude_graphs : GraphFilterSets,
     include_engine : {{}}, exclude_engine : {{}}]

EngineEnvs ==
    [include_graphs : {{}} \cup {{g} : g \in Range(InnodbGraphs)},
     exclude_graphs : {{}},
     include_engine : EngineFilterSets, exclude_engine : EngineFilterSets]

Envs == GraphEnvs \cup EngineEnvs

\* what getStorageEngines can do: return a set of engine names, or fail
EngineOutcomes ==
    {[ok |-> TRUE, engines |-> x] : x \in SUBSET EngineNames}
        \cup {[ok |-> FALSE, engines |-> {}]}

\* what getStats can do: return a snapshot, or fail
StatsOutcomes ==
    {[ok |-> TRUE, stats |-> x] : x \in Snapshots}
        \cup {[ok |-> FALSE, stats |-> BaseSnapshot]}

\* what getDatabases can do: return a list of names, or fail
DatabaseOutcomes ==
    {[ok |-> TRUE, dbs |-> x] : x \in {<<>>, <<"mysql">>, <<"mysql", "test">>}}
        \cup {[ok |-> FALSE, dbs |-> <<>>]}

(***************************************************************************)
(* Python arithmetic on the results of dict.get: an operand that is None   *)
(* raises TypeError.                                                       *)
(***************************************************************************)
Minus(a, b) == IF a.known /\ b.known THEN Ok(Known(a.num - b.num)) ELSE TypeError

Plus(a, b) == IF a.known /\ b.known THEN Ok(Known(a.num + b.num)) ELSE TypeError

Times(a, b) == IF a.known /\ b.known THEN Ok(Known(a.num * b.num)) ELSE TypeError

\* int(x): the number itself for an integer counter, TypeError for None
PyInt(a) == IF a.known THEN Ok(Known(a.num)) ELSE TypeError

(***************************************************************************)
(* The derivations of retrieveVals.                                        *)
(***************************************************************************)
\* the idle derivation with the cached count as its second operand
ThreadsIdleWrongOperand(st) ==
    Minus(Get(st, "Threads_connected"), Get(st, "Threads_cached"))

\* lines 322-323
ThreadsIdle(st) == Minus(Get(st, "Threads_connected"), Get(st, "Threads_running"))

\* lines 327-328
ThreadsTotal(st) == Plus(Get(st, "Threads_connected"), Get(st, "Threads_cached"))

\* lines 339-340
PagesClean(st) ==
    Minus(Get(st, "Innodb_buffer_pool_pages_data"),
          Get(st, "Innodb_buffer_pool_pages_dirty"))

\* line 341
PageSize(st) == PyInt(Get(st, "Innodb_page_size"))

\* 'Innodb_buffer_pool_pages_%s' % field
PoolPagesKey(f) ==
    CASE f = "dirty" -> "Innodb_buffer_pool_pages_dirty"
      [] f = "clean" -> "Innodb_buffer_pool_pages_clean"
      [] f = "misc" -> "Innodb_buffer_pool_pages_misc"
      [] f = "free" -> "Innodb_buffer_pool_pages_free"
      [] f = "total" -> "Innodb_buffer_pool_pages_total"

\* lines 345-347
PoolBytes(st, f, page_size) == Times(Get(st, PoolPagesKey(f)), page_size)

\* the hit count with an absent reads counter read as 0
HitsDefaultZero(st) ==
    IF "Innodb_buffer_pool_read_requests" \in DOMAIN st
    THEN Known(st["Innodb_buffer_pool_read_requests"]
               - (IF "Innodb_buffer_pool_reads" \in DOMAIN st
                  THEN st["Innodb_buffer_pool_reads"] ELSE 0))
    ELSE Unknown

\* lines 355-359: the subscripts raise KeyError for an absent counter and
\* the handler turns it into None
Hits(st) ==
    IF "Innodb_buffer_pool_read_requests" \in DOMAIN st
       /\ "Innodb_buffer_pool_reads" \in DOMAIN st
    THEN Known(st["Innodb_buffer_pool_read_requests"]
               - st["Innodb_buffer_pool_reads"])
    ELSE Unknown

(***************************************************************************)
(* The statements of retrieveVals, per graph block: each is one            *)
(* setGraphVal call, with the field it names and its argument expression.  *)
(***************************************************************************)
Stmt(f, arg) == [f |-> f, arg |-> arg]

\* 'Handler_read_%s' % field
HandlerReadKey(f) ==
    CASE f = "first" -> "Handler_read_first"
      [] f = "key" -> "Handler_read_key"
      [] f = "next" -> "Handler_read_next"
      [] f = "prev" -> "Handler_read_prev"
      [] f = "rnd" -> "Handler_read_rnd"
      [] f = "rnd_next" -> "Handler_read_rnd_next"

\* 'Innodb_pages_%s' % field
InnodbPagesKey(f) ==
    CASE f = "created" -> "Innodb_pages_created"
      [] f = "read" -> "Innodb_pages_read"
      [] f = "written" -> "Innodb_pages_written"

\* 'Innodb_rows_%s' % field
InnodbRowsKey(f) ==
    CASE f = "inserted" -> "Innodb_rows_inserted"
      [] f = "updated" -> "Innodb_rows_updated"
      [] f = "deleted" -> "Innodb_rows_deleted"
      [] f = "read" -> "Innodb_rows_read"

\* a pass-through statement: setGraphVal(g, f, self._genStats.get(key))
Pass(st, f, key) == Stmt(f, Ok(Get(st, key)))

\* lines 319-328
ThreadStmts(st) ==
    << Pass(st, "running", "Threads_running"),
       Stmt("idle", ThreadsIdle(st)),
       Pass(st, "cached", "Threads_cached"),
       Stmt("total", ThreadsTotal(st)) >>

\* lines 353-361
ReadReqsStmts(st) ==
    << Pass(st, "disk", "Innodb_buffer_pool_reads"),
       Stmt("buffer", Ok(Hits(st))) >>

\* lines 342-347, given the page size
PoolUtilStmts(st, page_size) ==
    LET fs == <<"dirty", "clean", "misc", "free", "total">>
    IN  [i \in 1..Len(fs) |-> Stmt(fs[i], PoolBytes(st, fs[i], page_size))]

\* the statements of the block of graph g (fields: the registry's field list)
BlockStmts(g, st) ==
    CASE g = "mysql_connections" ->
           << Pass(st, "conn", "Connections"),
              Pass(st, "abort_conn", "Aborted_connects"),
              Pass(st, "abort_client", "Aborted_clients") >>
      [] g = "mysql_traffic" ->
           << Pass(st, "rx", "Bytes_received"), Pass(st, "tx", "Bytes_sent") >>
      [] g = "mysql_slowqueries" ->
           << Pass(st, "queries", "Slow_queries") >>
      [] g = "mysql_rowmodifications" ->
           << Pass(st, "insert", "Handler_write"),
              Pass(st, "update", "Handler_update"),
              Pass(st, "delete", "Handler_delete") >>
      [] g = "mysql_rowreads" ->
           [i \in 1..Len(GraphFields(g)) |->
               Pass(st, GraphFields(g)[i], HandlerReadKey(GraphFields(g)[i]))]
      [] g = "mysql_tablelocks" ->
           << Pass(st, "waited", "Table_locks_waited"),
              Pass(st, "immediate", "Table_locks_immediate") >>
      [] g = "mysql_threads" -> ThreadStmts(st)
      [] g = "mysql_commits_rollbacks" ->
           << Pass(st, "commit", "Handler_commit"),
              Pass(st, "rollback", "Handler_rollback") >>
      [] g = "mysql_innodb_buffer_pool_activity" ->
           LET fs == <<"created", "read", "written">>
           IN  [i \in 1..Len(fs) |-> Pass(st, fs[i], InnodbPagesKey(fs[i]))]
      [] g = "mysql_innodb_buffer_pool_read_reqs" -> ReadReqsStmts(st)
      [] g = "mysql_innodb_row_ops" ->
           LET fs == <<"inserted", "updated", "deleted", "read">>
           IN  [i \in 1..Len(fs) |-> Pass(st, fs[i], InnodbRowsKey(fs[i]))]

(***************************************************************************)
(* The state of one plugin run.                                            *)
(***************************************************************************)
VARIABLES
    env,            \* the include/exclude lists of the environment
    pc,             \* "new", "ready", "done" (autoconf answered), "dead"
    dbconn,         \* self._dbconn is not None
    engines,        \* self._engines: None or Some(set)
    genStats,       \* self._genStats: None or Some(mapping)
    graphs,         \* the registry: graph ids in registration order
    vals,           \* the current value of every field
    calls,          \* setGraphVal calls per field in the latest poll
    lastIncluded,   \* what engineIncluded('innodb') returned last
    autoconfRet,    \* what autoconf returned: "none", "true", "false"
    raisedAt,       \* where an exception left the plugin, or "none"
    srcFailed,      \* the stats-source call that failed, or "none"
    rawStats,       \* the mapping as getStats returned it: None or Some
    statsFrom,      \* where the latest retrieveVals took the snapshot from:
                    \* "source" (a round trip), "stored", or "none" so far
    statsAsked,     \* getStats round trips so far
    enginesAsked    \* getStorageEngines round trips so far

vars ==
    << env, pc, dbconn, engines, genStats, graphs, vals, calls, lastIncluded,
       autoconfRet, raisedAt, srcFailed, rawStats, statsFrom, statsAsked,
       enginesAsked >>

NoCalls == [x \in FieldIds |-> 0]

Init ==
    /\ env \in Envs
    /\ pc = "new"
    /\ dbconn = FALSE
    /\ engines = None
    /\ genStats = None
    /\ graphs = <<>>
    /\ vals = [x \in FieldIds |-> Unknown]
    /\ calls = NoCalls
    /\ lastIncluded = "none"
    /\ autoconfRet = "none"
    /\ raisedAt = "none"
    /\ srcFailed = "none"
    /\ rawStats = None
    /\ statsFrom = "none"
    /\ statsAsked = 0
    /\ enginesAsked = 0

(***************************************************************************)
(* engineIncluded (lines 367-376).                                         *)
(***************************************************************************)
\* line 374: `is None`, so a stored empty set is not fetched again
EnginesNeedFetch(cache) == cache = None

\* line 376 without the membership test
EngineIncludedRetFilterOnly(e, engs, name) == envCheckFilterEngine(e, name)

\* line 376
EngineIncludedRet(e, engs, name) == envCheckFilterEngine(e, name) /\ name \in engs

\* the outcomes of getStorageEngines an engineIncluded call can meet
EngineChoices(cache) ==
    IF EnginesNeedFetch(cache) THEN EngineOutcomes
    ELSE {[ok |-> TRUE, engines |-> {}]}

\* one call: whether it raises, what it returns, self._engines afterwards
\* and whether the stats source was asked
engineIncluded(e, cache, name, out) ==
    LET fetch == EnginesNeedFetch(cache)
    IN  IF fetch /\ ~out.ok
        THEN [raises |-> TRUE, ret |-> FALSE, engines |-> cache, asked |-> 1]
        ELSE LET engs == IF fetch THEN Some(out.engines) ELSE cache
             IN  [raises |-> FALSE,
                  ret |-> EngineIncludedRet(e, engs[1], name),
                  engines |-> engs,
                  asked |-> IF fetch THEN 1 ELSE 0]

BoolStr(b) == IF b THEN "true" ELSE "false"

(***************************************************************************)
(* __init__ (lines 74-281).                                                *)
(***************************************************************************)
\* the graph id tested by the `if self.graphEnabled(...)` that guards the
\* registration of graph g, with the guard of mysql_rowreads copied from
\* the block before it
GuardOfCopied(g) == IF g = "mysql_rowreads" THEN "mysql_rowmodifications" ELSE g

\* the graph id tested by the `if self.graphEnabled(...)` that guards the
\* registration of graph g
GuardOf(g) == g

Registered(e, g) == graphEnabled(e, GuardOf(g))

\* lines 97-216
InitGraphs(e) == SelectSeq(NonEngineGraphs, LAMBDA g : Registered(e, g))

\* lines 220-281
InitInnodbGraphs(e) == SelectSeq(InnodbGraphs, LAMBDA g : Registered(e, g))

Construct ==
    /\ pc = "new"
    /\ \E connOk \in BOOLEAN, out \in EngineChoices(engines) :
         IF ~connOk
         THEN \* lines 94-95: MySQLinfo(...) fails to connect
              /\ out = [ok |-> TRUE, engines |-> {}]
              /\ pc' = "dead"
              /\ raisedAt' = "connect"
              /\ srcFailed' = "connect"
              /\ UNCHANGED << dbconn, engines, graphs, lastIncluded, enginesAsked >>
         ELSE LET r == engineIncluded(env, engines, "innodb", out)
              IN  /\ dbconn' = TRUE
                  /\ engines' = r.engines
                  /\ enginesAsked' = enginesAsked + r.asked
                  /\ IF r.raises
                     THEN /\ pc' = "dead"
                          /\ raisedAt' = "getStorageEngines"
                          /\ srcFailed' = "getStorageEngines"
                          /\ graphs' = InitGraphs(env)
                          /\ UNCHANGED lastIncluded
                     ELSE /\ pc' = "ready"
                          /\ UNCHANGED << raisedAt, srcFailed >>
                          /\ lastIncluded' = BoolStr(r.ret)
                          /\ graphs' = InitGraphs(env)
                                \o (IF r.ret THEN InitInnodbGraphs(env) ELSE <<>>)
    /\ UNCHANGED << env, genStats, vals, calls, autoconfRet, rawStats, statsFrom,
                    statsAsked >>

\* a standalone call of engineIncluded('innodb') on the instance
EngineIncluded ==
    /\ pc = "ready"
    /\ \E out \in EngineChoices(engines) :
         LET r == engineIncluded(env, engines, "innodb", out)
         IN  /\ engines' = r.engines
             /\ enginesAsked' = enginesAsked + r.asked
             /\ IF r.raises
                THEN /\ pc' = "dead"
                     /\ raisedAt' = "getStorageEngines"
                     /\ srcFailed' = "getStorageEngines"
                     /\ UNCHANGED lastIncluded
                ELSE /\ lastIncluded' = BoolStr(r.ret)
                     /\ UNCHANGED << pc, raisedAt, srcFailed >>
    /\ UNCHANGED << env, dbconn, genStats, graphs, vals, calls, autoconfRet,
                    rawStats, statsFrom, statsAsked >>

(***************************************************************************)
(* retrieveVals (lines 283-365).  A poll is run on a record p holding the  *)
(* snapshot, the field values, the setGraphVal calls made so far and the   *)
(* block an exception came from.                                           *)
(***************************************************************************)
\* setGraphVal(g, f, v): overwrites the field's value; no-op for a graph
\* that is not registered (specification 4.2)
setGraphVal(p, reg, g, f, v) ==
    [p EXCEPT !.calls[<<g, f>>] = @ + 1,
              !.vals[<<g, f>>] = IF hasGraph(reg, g) THEN v ELSE @]

\* the statements of one block in order: an argument that raises ends it
RECURSIVE Exec(_, _, _, _)
Exec(p, reg, g, stmts) ==
    IF stmts = <<>> THEN p
    ELSE IF Head(stmts).arg.raises THEN [p EXCEPT !.raisedAt = g]
    ELSE Exec(setGraphVal(p, reg, g, Head(stmts).f, Head(stmts).arg.val),
              reg, g, Tail(stmts))

\* lines 338-347: the clean-page count is stored into the snapshot, then
\* the page size is read, then the five fields are set
PoolUtilBlock(p, reg) ==
    LET g == "mysql_innodb_buffer_pool_util"
        clean == PagesClean(p.stats)
    IN  IF clean.raises THEN [p EXCEPT !.raisedAt = g]
        ELSE LET st2 == Put(p.stats, "Innodb_buffer_pool_pages_clean",
                            clean.val.num)
                 p2 == [p EXCEPT !.stats = st2]
                 ps == PageSize(st2)
             IN  IF ps.raises THEN [p2 EXCEPT !.raisedAt = g]
                 ELSE Exec(p2, reg, g, PoolUtilStmts(st2, ps.val))

RunBlock(p, reg, g) ==
    IF g = "mysql_innodb_buffer_pool_util" THEN PoolUtilBlock(p, reg)
    ELSE Exec(p, reg, g, BlockStmts(g, p.stats))

\* the condition of the block of graph g: hasGraph, but graphEnabled for
\* mysql_slowqueries (line 299)
BlockGuard(e, reg, g) ==
    IF g = "mysql_slowqueries" THEN graphEnabled(e, g) ELSE hasGraph(reg, g)

\* the blocks of gs in order, up to the first exception
RECURSIVE RunBlocks(_, _, _, _)
RunBlocks(p, e, reg, gs) ==
    IF gs = <<>> \/ p.raisedAt # "none" THEN p
    ELSE RunBlocks(IF BlockGuard(e, reg, Head(gs))
                   THEN RunBlock(p, reg, Head(gs)) ELSE p,
                   e, reg, Tail(gs))

\* line 285 without the test of the stored snapshot
StatsNeedFetchAlways(cache) == TRUE

\* line 285
StatsNeedFetch(cache) == cache = None

\* the outcomes of getStats a retrieveVals call can meet
StatsChoices(cache) ==
    IF StatsNeedFetch(cache) THEN StatsOutcomes
    ELSE {[ok |-> TRUE, stats |-> BaseSnapshot]}

\* line 286 with a failure of getStats caught and an empty mapping used
OnGetStatsSwallow(out) ==
    IF out.ok THEN [raises |-> FALSE, stats |-> out.stats]
    ELSE [raises |-> FALSE, stats |-> [k \in {} |-> 0]]

\* line 286: the mapping getStats returns is stored; its failure leaves
\* retrieveVals
OnGetStats(out) ==
    IF out.ok THEN [raises |-> FALSE, stats |-> out.stats]
    ELSE [raises |-> TRUE, stats |-> out.stats]

RetrieveVals ==
    /\ pc = "ready"
    /\ \E so \in StatsChoices(genStats) :
         LET fetch == StatsNeedFetch(genStats)
             got == OnGetStats(so)
         IN  /\ statsAsked' = statsAsked + (IF fetch THEN 1 ELSE 0)
             /\ statsFrom' = IF fetch THEN "source" ELSE "stored"
             /\ rawStats' = IF fetch /\ ~got.raises THEN Some(got.stats)
                            ELSE rawStats
             /\ IF fetch /\ got.raises
                THEN /\ pc' = "dead"
                     /\ raisedAt' = "getStats"
                     /\ srcFailed' = "getStats"
                     /\ calls' = NoCalls
                     /\ UNCHANGED << genStats, vals, engines, enginesAsked,
                                     lastIncluded >>
                ELSE LET p0 == [stats |-> IF fetch THEN got.stats ELSE genStats[1],
                                vals |-> vals, calls |-> NoCalls,
                                raisedAt |-> "none"]
                         p1 == RunBlocks(p0, env, graphs, NonEngineGraphs)
                         failed == IF fetch /\ ~so.ok THEN "getStats" ELSE srcFailed
                     IN  IF p1.raisedAt # "none"
                         THEN /\ pc' = "dead"
                              /\ raisedAt' = p1.raisedAt
                              /\ srcFailed' = failed
                              /\ genStats' = Some(p1.stats)
                              /\ vals' = p1.vals
                              /\ calls' = p1.calls
                              /\ UNCHANGED << engines, enginesAsked, lastIncluded >>
                         ELSE \E eo \in EngineChoices(engines) :
                                LET r == engineIncluded(env, engines, "innodb", eo)
                                    p2 == IF ~r.raises /\ r.ret
                                          THEN RunBlocks(p1, env, graphs, InnodbGraphs)
                                          ELSE p1
                                IN  /\ engines' = r.engines
                                    /\ enginesAsked' = enginesAsked + r.asked
                                    /\ lastIncluded' =
                                         IF r.raises THEN lastIncluded ELSE BoolStr(r.ret)
                                    /\ genStats' = Some(p2.stats)
                                    /\ vals' = p2.vals
                                    /\ calls' = p2.calls
                                    /\ raisedAt' =
                                         IF r.raises THEN "getStorageEngines"
                                         ELSE p2.raisedAt
                                    /\ srcFailed' =
                                         IF r.raises THEN "getStorageEngines" ELSE failed
                                    /\ pc' = IF r.raises \/ p2.raisedAt # "none"
                                             THEN "dead" ELSE "ready"
    /\ UNCHANGED << env, dbconn, graphs, autoconfRet >>

(***************************************************************************)
(* autoconf (lines 378-385): the entry point is run on a newly constructed *)
(* instance and its answer ends the run.                                   *)
(***************************************************************************)
\* lines 384-385, given the list getDatabases returned
AutoconfRet(conn, dbs) == conn /\ Len(dbs) > 0

Autoconf ==
    /\ pc = "ready"
    /\ genStats = None
    /\ \E out \in DatabaseOutcomes :
         IF dbconn /\ ~out.ok
         THEN /\ pc' = "dead"
              /\ raisedAt' = "getDatabases"
              /\ srcFailed' = "getDatabases"
              /\ UNCHANGED autoconfRet
         ELSE /\ pc' = "done"
              /\ autoconfRet' = BoolStr(AutoconfRet(dbconn, out.dbs))
              /\ UNCHANGED << raisedAt, srcFailed >>
    /\ UNCHANGED << env, dbconn, engines, genStats, graphs, vals, calls,
                    lastIncluded, rawStats, statsFrom, statsAsked,
                    enginesAsked >>

Next == Construct \/ EngineIncluded \/ RetrieveVals \/ Autoconf

Spec == Init /\ [][Next]_vars

(***************************************************************************)
(* Properties.                                                             *)
(***************************************************************************)
\* __init__ returned: the instance exists
Constructed ==
    pc \in {"ready", "done"}
        \/ (pc = "dead" /\ raisedAt \notin {"connect", "getStorageEngines"})

\* a poll ran on a fetched snapshot
Polled == genStats # None

\* the filter rule, written out
RuleEnabled(name, includeSet, excludeSet) ==
    /\ name \notin excludeSet
    /\ (includeSet # {} => name \in includeSet)

\* the position of a block in retrieveVals
BlockPos(g) ==
    CHOOSE i \in 1..Len(NonEngineGraphs \o InnodbGraphs) :
        (NonEngineGraphs \o InnodbGraphs)[i] = g

\* the poll got as far as the block of graph g
ReachedBlock(g) ==
    /\ Polled
    /\ raisedAt = "none" \/ (raisedAt \in GraphIds /\ BlockPos(raisedAt) >= BlockPos(g))

Present(k) == k \in DOMAIN genStats[1]

\* C1: after construction a graph is registered only if the filter rule
\* enables it (not excluded, and in the include list when that list is
\* non-empty), and each of the eight non-engine graphs is registered
\* exactly when the rule enables it.
C1_GraphFilter ==
    Constructed =>
        /\ \A g \in GraphIds :
             hasGraph(graphs, g) =>
                 RuleEnabled(g, env.include_graphs, env.exclude_graphs)
        /\ \A g \in Range(NonEngineGraphs) :
             hasGraph(graphs, g) <=>
                 RuleEnabled(g, env.include_graphs, env.exclude_graphs)

\* include_graphs = exclude_graphs = {mysql_threads}: constructed without
\* the threads graph
C1_Witness ==
    /\ pc = "ready"
    /\ env.include_graphs = {"mysql_threads"}
    /\ env.exclude_graphs = {"mysql_threads"}
    /\ ~hasGraph(graphs, "mysql_threads")

\* C2: an innodb graph is registered only if 'innodb' passes the engine
\* filter and is in the active engine set the stats source returned, and
\* a poll makes no setGraphVal call for an innodb graph that is not
\* registered.
C2_InnodbOnlyIfActive ==
    Constructed =>
        \A g \in Range(InnodbGraphs) :
            /\ hasGraph(graphs, g) =>
                 /\ envCheckFilterEngine(env, "innodb")
                 /\ engines # None
                 /\ "innodb" \in engines[1]
            /\ ~hasGraph(graphs, g) =>
                 \A f \in Range(GraphFields(g)) :
                     calls[<<g, f>>] = 0 /\ vals[<<g, f>>] = Unknown

\* include_engine = {innodb}, active engines {myisam}: polled, no innodb
\* graph registered, the other graphs have their values
C2_Witness ==
    /\ pc = "ready"
    /\ Polled
    /\ env.include_engine = {"innodb"}
    /\ engines = Some({"myisam"})
    /\ \A g \in Range(InnodbGraphs) : ~hasGraph(graphs, g)
    /\ calls[<<"mysql_connections", "conn">>] = 1

\* C3: with mysql_threads registered and the three thread counters in the
\* snapshot, a poll sets running = Threads_running, idle =
\* Threads_connected - Threads_running, cached = Threads_cached and
\* total = Threads_connected + Threads_cached, each once.
C3_ThreadFields ==
    ( /\ Polled
      /\ hasGraph(graphs, "mysql_threads")
      /\ Present("Threads_connected")
      /\ Present("Threads_running")
      /\ Present("Threads_cached") ) =>
        LET st == genStats[1]
            t == "mysql_threads"
        IN  /\ vals[<<t, "running">>] = Known(st["Threads_running"])
            /\ vals[<<t, "idle">>] =
                 Known(st["Threads_connected"] - st["Threads_running"])
            /\ vals[<<t, "cached">>] = Known(st["Threads_cached"])
            /\ vals[<<t, "total">>] =
                 Known(st["Threads_connected"] + st["Threads_cached"])
            /\ \A f \in Range(GraphFields(t)) : calls[<<t, f>>] = 1

\* connected = 10, running = 3, cached = 2 polled: 3, 7, 2, 12
C3_Witness ==
    /\ Polled
    /\ Present("Threads_connected") /\ genStats[1]["Threads_connected"] = 10
    /\ Present("Threads_running") /\ genStats[1]["Threads_running"] = 3
    /\ Present("Threads_cached") /\ genStats[1]["Threads_cached"] = 2
    /\ vals[<<"mysql_threads", "running">>] = Known(3)
    /\ vals[<<"mysql_threads", "idle">>] = Known(7)
    /\ vals[<<"mysql_threads", "cached">>] = Known(2)
    /\ vals[<<"mysql_threads", "total">>] = Known(12)

\* the raw counters each arithmetic derivation of a field requires
Operands(g, f) ==
    IF g = "mysql_threads" /\ f = "idle"
    THEN {"Threads_connected", "Threads_running"}
    ELSE IF g = "mysql_threads" /\ f = "total"
    THEN {"Threads_connected", "Threads_cached"}
    ELSE IF g = "mysql_innodb_buffer_pool_util" /\ f = "clean"
    THEN {"Innodb_buffer_pool_pages_data", "Innodb_buffer_pool_pages_dirty",
          "Innodb_page_size"}
    ELSE IF g = "mysql_innodb_buffer_pool_util"
    THEN {PoolPagesKey(f), "Innodb_page_size"}
    ELSE {}

\* C4: a poll over a fetched snapshot raises no failure, and a derived
\* field (idle, total, the buffer-pool bytes) of a registered graph with a
\* required counter absent is assigned the unknown marker.
C4_UnknownNotFailure ==
    Polled =>
        /\ raisedAt = "none"
        /\ \A x \in FieldIds :
             ( /\ hasGraph(graphs, x[1])
               /\ \E k \in Operands(x[1], x[2]) : ~Present(k) ) =>
                 calls[x] = 1 /\ vals[x] = Unknown

\* C5: with mysql_innodb_buffer_pool_read_reqs registered, a poll that
\* gets to its block sets 'buffer' once, to read_requests - reads when
\* both counters are present and to unknown when either is absent, and
\* the block raises no failure.
C5_HitCount ==
    ( /\ hasGraph(graphs, "mysql_innodb_buffer_pool_read_reqs")
      /\ ReachedBlock("mysql_innodb_buffer_pool_read_reqs") ) =>
        LET st == genStats[1]
            x == <<"mysql_innodb_buffer_pool_read_reqs", "buffer">>
        IN  /\ raisedAt # "mysql_innodb_buffer_pool_read_reqs"
            /\ calls[x] = 1
            /\ vals[x] =
                 IF Present("Innodb_buffer_pool_read_requests")
                    /\ Present("Innodb_buffer_pool_reads")
                 THEN Known(st["Innodb_buffer_pool_read_requests"]
                            - st["Innodb_buffer_pool_reads"])
                 ELSE Unknown

\* reads absent, read_requests present: 'buffer' is unknown and the poll
\* completed
C5_Witness ==
    /\ pc = "ready"
    /\ Polled
    /\ hasGraph(graphs, "mysql_innodb_buffer_pool_read_reqs")
    /\ ~Present("Innodb_buffer_pool_reads")
    /\ Present("Innodb_buffer_pool_read_requests")
    /\ calls[<<"mysql_innodb_buffer_pool_read_reqs", "buffer">>] = 1
    /\ vals[<<"mysql_innodb_buffer_pool_read_reqs", "buffer">>] = Unknown

\* C6: when the database-list fetch of an autoconf call fails, autoconf
\* answers false and no error leaves the plugin; it answers true only
\* with a connection and a database list that was fetched.
C6_AutoconfNeverRaises ==
    /\ srcFailed = "getDatabases" =>
         raisedAt = "none" /\ autoconfRet = "false"
    /\ autoconfRet = "true" => dbconn /\ srcFailed = "none"

\* C7: if getStats fails, retrieveVals ends with that failure and has
\* made no setGraphVal call: no field has a value.
C7_NoValueOnFetchFailure ==
    srcFailed = "getStats" =>
        /\ pc = "dead"
        /\ raisedAt = "getStats"
        /\ \A x \in FieldIds : calls[x] = 0 /\ vals[x] = Unknown

\* getStats failed on an instance with graphs registered
C7_Witness ==
    /\ srcFailed = "getStats"
    /\ pc = "dead"
    /\ hasGraph(graphs, "mysql_connections")
    /\ hasGraph(graphs, "mysql_innodb_row_ops")

\* C8: if getStorageEngines fails, engineIncluded returns false and
\* construction completes, with the non-engine graphs registered by the
\* graph filter and no innodb graph.
C8_EngineLookupFailSafe ==
    srcFailed = "getStorageEngines" =>
        /\ raisedAt = "none"
        /\ pc # "dead"
        /\ lastIncluded = "false"
        /\ \A g \in Range(NonEngineGraphs) :
             hasGraph(graphs, g) <=>
                 RuleEnabled(g, env.include_graphs, env.exclude_graphs)
        /\ \A g \in Range(InnodbGraphs) : ~hasGraph(graphs, g)

\* C9: after a poll over a fetched snapshot every field of every
\* registered graph has been set exactly once and no field of an
\* unregistered graph has been set.
C9_EveryFieldOnce ==
    (Polled /\ srcFailed # "getStats") =>
        \A x \in FieldIds :
            calls[x] = IF hasGraph(graphs, x[1]) THEN 1 ELSE 0

\* C10: in one run getStats is called at most once and getStorageEngines
\* at most once; a stored snapshot or engine set (an empty one too) came
\* from that one call, and a retrieveVals that found a stored snapshot
\* made no round trip.
C10_FetchOnce ==
    /\ statsAsked <= 1
    /\ enginesAsked <= 1
    /\ genStats # None => statsAsked = 1
    /\ engines # None => enginesAsked = 1
    /\ statsFrom = "stored" => genStats # None

\* a second retrieveVals served from the stored snapshot, with an empty
\* stored engine set, after one round trip each
C10_Witness ==
    /\ pc = "ready"
    /\ statsFrom = "stored"
    /\ engines = Some({})
    /\ statsAsked = 1
    /\ enginesAsked = 1

====
